---- MODULE Spec2Model ----
(***************************************************************************)
(* GitBuddy synchronization scheduler.                                     *)
(*                                                                         *)
(* Two engines run the same schedule:                                      *)
(*   - GitBuddyApp.perform_periodic_sync (gitbuddy_app.py), driven by a    *)
(*     30 s QTimer inside the Qt event loop;                               *)
(*   - the periodic loop of main() in git_puller_service.py.               *)
(* A behaviour of this module runs one of the two (variable engine).       *)
(* Time is in abstract seconds; git, the file system and the user are the  *)
(* environment and are nondeterministic.                                   *)
(***************************************************************************)
EXTENDS Integers, Sequences, FiniteSets, TLC

VARIABLES
    engine,        \* "app": GitBuddyApp; "svc": git_puller_service.main
    env,           \* what the user and the timer do in this run
    now,           \* datetime.now(), in seconds
    app_state,     \* GitBuddyApp.app_state: repositories and the pause flags
    stack,         \* active invocations of perform_periodic_sync, outermost first
    repositories,  \* main(): the local list `repositories`
    running,       \* git_puller_service.running
    svc,           \* main(): position in the loop and the loop variable
    ev             \* what the last step did (observation only)

vars == <<engine, env, now, app_state, stack, repositories, running, svc, ev>>

--------------------------------------------------------------------------
(* Bounds *)

MaxTime == 2
MaxDepth == 2

(* datetime.min, the 'never' sentinel, scaled: far before every time of the model *)
DatetimeMin == -1000000

(* `* 60`: minutes to seconds; the model's clock advances in minutes *)
SecondsPerMinute == 60

Ops == {"pull", "commit", "push"}
Paths == {"A", "B"}
IntervalMinutes == {1, 2}
Intervals == {m * SecondsPerMinute : m \in IntervalMinutes}
Templates == {"Auto-commit from GitBuddy: {timestamp}"}

--------------------------------------------------------------------------
(* Repository entries *)

Settings ==
    [path : Paths,
     auto_pull : BOOLEAN, pull_interval : Intervals,
     auto_commit : BOOLEAN, commit_interval : Intervals,
     commit_message_template : Templates,
     auto_push : BOOLEAN, push_interval : Intervals]

(* the dict appended by load_app_state / load_repositories: the settings *)
(* plus the three timestamps at datetime.min                             *)
NewEntry(e) ==
    [path |-> e.path,
     auto_pull |-> e.auto_pull, pull_interval |-> e.pull_interval,
     last_pulled_at |-> DatetimeMin,
     auto_commit |-> e.auto_commit, commit_interval |-> e.commit_interval,
     last_committed_at |-> DatetimeMin,
     commit_message_template |-> e.commit_message_template,
     auto_push |-> e.auto_push, push_interval |-> e.push_interval,
     last_pushed_at |-> DatetimeMin]

AutoOf(r, op) ==
    CASE op = "pull" -> r.auto_pull
      [] op = "commit" -> r.auto_commit
      [] op = "push" -> r.auto_push

IntervalOf(r, op) ==
    CASE op = "pull" -> r.pull_interval
      [] op = "commit" -> r.commit_interval
      [] op = "push" -> r.push_interval

LastOf(r, op) ==
    CASE op = "pull" -> r.last_pulled_at
      [] op = "commit" -> r.last_committed_at
      [] op = "push" -> r.last_pushed_at

SetLast(r, op, t) ==
    CASE op = "pull" -> [r EXCEPT !.last_pulled_at = t]
      [] op = "commit" -> [r EXCEPT !.last_committed_at = t]
      [] op = "push" -> [r EXCEPT !.last_pushed_at = t]

PauseOf(st, op) ==
    CASE op = "pull" -> st.global_pause_pull
      [] op = "commit" -> st.global_pause_commit
      [] op = "push" -> st.global_pause_push

(* The configurations the model draws from.  An entry has pull, commit    *)
(* and push intervals in minutes; a store holds no entry, one entry, two  *)
(* repositories, or the same path twice.                                  *)
Entry(path, flags, prof) ==
    [path |-> path,
     auto_pull |-> flags[1], pull_interval |-> prof[1] * SecondsPerMinute,
     auto_commit |-> flags[2], commit_interval |-> prof[2] * SecondsPerMinute,
     commit_message_template |-> "Auto-commit from GitBuddy: {timestamp}",
     auto_push |-> flags[3], push_interval |-> prof[3] * SecondsPerMinute]

AllOn == <<Entry("A", <<TRUE, TRUE, TRUE>>, <<1, 2, 2>>)>>

TwoRepos ==
    <<Entry("A", <<TRUE, TRUE, FALSE>>, <<1, 2, 2>>),
      Entry("B", <<TRUE, FALSE, FALSE>>, <<2, 1, 1>>)>>

SamePathTwice ==
    <<Entry("A", <<TRUE, FALSE, FALSE>>, <<1, 2, 2>>),
      Entry("A", <<TRUE, TRUE, FALSE>>, <<2, 1, 1>>)>>

StoreInputs ==
    {<<>>,
     AllOn,
     <<Entry("A", <<TRUE, FALSE, TRUE>>, <<2, 1, 1>>)>>,
     <<Entry("A", <<FALSE, TRUE, FALSE>>, <<1, 2, 2>>)>>,
     TwoRepos,
     SamePathTwice}

(* What the user and the timer do during one run of GitBuddyApp:          *)
(*   pause   : the pause switches are toggled                             *)
(*   edit    : the configuration is edited (update_repositories_data)     *)
(*   reenter : the QTimer fires while a dialog of a tick is open          *)
(* each with the stores it starts from.                                   *)
Scenarios ==
    ({{"pause"}, {"edit"}} \X StoreInputs)
    \cup ({{"reenter"}} \X {AllOn, TwoRepos, SamePathTwice})

--------------------------------------------------------------------------
(* run_git_command: the outcomes of one git invocation.                   *)
(*   invalid  : the path is no directory or has no .git (no process)      *)
(*   ok       : return code 0                                             *)
(*   failed   : non-zero return code, stderr matching no auth keyword     *)
(*   auth     : non-zero return code, stderr matching an auth keyword     *)
(*   notfound : FileNotFoundError (no git executable)                     *)
(*   timeout  : subprocess.TimeoutExpired                                 *)

GitOutcomes == {"invalid", "ok", "failed", "auth", "notfound", "timeout"}

(* mutant: the precondition checks of run_git_command let the call pass *)
Succeeded_InvalidPasses(out) == out \in {"ok", "invalid"}

(* first component of run_git_command's result *)
Succeeded(out) == out = "ok"

(* third component of GitBuddyApp.run_git_command's result *)
IsAuthError(out) == out = "auth"

(* how long a git command may take *)
Durations == {0} \cup (IF now < MaxTime * SecondsPerMinute THEN {SecondsPerMinute} ELSE {})

(* one call of run_git_command: the git subcommand *)
Cmd(sub, out) == sub

(* run_git_command returns before subprocess.run when the path is no      *)
(* directory or has no .git directory                                     *)
Spawns(out) == out # "invalid"

(* the number of subprocess.run calls behind a sequence of git answers *)
SpawnCount(outs) == Cardinality({k \in DOMAIN outs : Spawns(outs[k])})

(* GitBuddyApp.handle_git_operation_result: one notification in every     *)
(* branch; QMessageBox.critical (a modal dialog) on an authentication     *)
(* failure; returns success                                               *)
handle_git_operation_result(success, is_auth_error) ==
    [success |-> success,
     dialog |-> (~success) /\ is_auth_error,
     notes |-> 1]

(* GitBuddyApp.pull_repository / push_repository; out is git's answer *)
App_simple_repository(op, out) ==
    LET h == handle_git_operation_result(Succeeded(out), IsAuthError(out))
    IN  [cmds |-> <<Cmd(op, out)>>, success |-> h.success,
         dialog |-> h.dialog, notes |-> h.notes, changes |-> "-",
         procs |-> SpawnCount(<<out>>)]

(* mutant: commit_repository goes on to `git commit` although staging     *)
(* failed                                                                 *)
App_commit_repository_IgnoresAdd(st, dirty, ad, co) ==
    IF ~Succeeded(st)
    THEN [cmds |-> <<Cmd("status", st)>>, success |-> FALSE,
          dialog |-> FALSE, notes |-> 1, changes |-> "unknown",
          procs |-> SpawnCount(<<st>>)]
    ELSE IF ~dirty
    THEN [cmds |-> <<Cmd("status", st)>>, success |-> FALSE,
          dialog |-> FALSE, notes |-> 0, changes |-> "none",
          procs |-> SpawnCount(<<st>>)]
    ELSE LET h == handle_git_operation_result(Succeeded(co), IsAuthError(co))
         IN  [cmds |-> <<Cmd("status", st), Cmd("add", ad), Cmd("commit", co)>>,
              success |-> h.success, dialog |-> h.dialog, notes |-> h.notes,
              changes |-> "some", procs |-> SpawnCount(<<st, ad, co>>)]

(* GitBuddyApp.commit_repository; st, ad, co are git's answers to status, *)
(* add and commit, dirty tells whether status printed anything            *)
App_commit_repository(st, dirty, ad, co) ==
    IF ~Succeeded(st)
    THEN [cmds |-> <<Cmd("status", st)>>, success |-> FALSE,
          dialog |-> FALSE, notes |-> 1, changes |-> "unknown",
          procs |-> SpawnCount(<<st>>)]
    ELSE IF ~dirty
    THEN [cmds |-> <<Cmd("status", st)>>, success |-> FALSE,
          dialog |-> FALSE, notes |-> 0, changes |-> "none",
          procs |-> SpawnCount(<<st>>)]
    ELSE IF ~Succeeded(ad)
    THEN [cmds |-> <<Cmd("status", st), Cmd("add", ad)>>, success |-> FALSE,
          dialog |-> FALSE, notes |-> 1, changes |-> "some",
          procs |-> SpawnCount(<<st, ad>>)]
    ELSE LET h == handle_git_operation_result(Succeeded(co), IsAuthError(co))
         IN  [cmds |-> <<Cmd("status", st), Cmd("add", ad), Cmd("commit", co)>>,
              success |-> h.success, dialog |-> h.dialog, notes |-> h.notes,
              changes |-> "some", procs |-> SpawnCount(<<st, ad, co>>)]

(* git's answers to one operation, and what the operation makes of them *)
App_runs(op) ==
    IF op = "commit"
    THEN {App_commit_repository(st, dirty, ad, co) :
            st \in GitOutcomes, dirty \in BOOLEAN,
            ad \in GitOutcomes, co \in GitOutcomes}
    ELSE {App_simple_repository(op, out) : out \in GitOutcomes}

--------------------------------------------------------------------------
(* Observation of a step *)

(* what subprocess.run is given for a git process: the two environment  *)
(* variables and stdin; "inherited" is whatever the caller of the program *)
(* has                                                                    *)
App_spawn ==
    [GIT_TERMINAL_PROMPT |-> "0", GIT_ASKPASS |-> "/bin/true", stdin |-> "PIPE"]

Svc_spawn ==
    [GIT_TERMINAL_PROMPT |-> "inherited", GIT_ASKPASS |-> "inherited",
     stdin |-> "inherited"]

SpawnOf(e) == IF e = "app" THEN App_spawn ELSE Svc_spawn

NoSpawn == [GIT_TERMINAL_PROMPT |-> "-", GIT_ASKPASS |-> "-", stdin |-> "-"]

NoEv(kind) ==
    [kind |-> kind, op |-> "-", i |-> 0, path |-> "-", guard |-> "-",
     cmds |-> <<>>, success |-> FALSE, notes |-> 0, changes |-> "-",
     report |-> "-", procs |-> 0, arg |-> <<>>, ret |-> <<>>,
     spawn |-> NoSpawn]

OpEv(op, i, path, guard, run) ==
    [kind |-> "op", op |-> op, i |-> i, path |-> path, guard |-> guard,
     cmds |-> run.cmds, success |-> run.success, notes |-> run.notes,
     changes |-> run.changes, report |-> "-", procs |-> run.procs,
     arg |-> <<>>, ret |-> <<>>,
     spawn |-> IF run.procs > 0 THEN SpawnOf(engine) ELSE NoSpawn]

NoRun == [cmds |-> <<>>, success |-> FALSE, dialog |-> FALSE, notes |-> 0,
          changes |-> "-", procs |-> 0]

--------------------------------------------------------------------------
(* GitBuddyApp *)

Top == stack[Len(stack)]

SetTop(f) == [stack EXCEPT ![Len(stack)] = f]

(* The Qt event loop dispatches events when no slot is running: at top    *)
(* level, or inside QMessageBox.critical's exec() of the innermost        *)
(* invocation.                                                            *)
EventLoopRuns == IF stack = <<>> THEN TRUE ELSE Top.pc = "dialog"

(* mutant: the push block placed before the commit block *)
NextOp_PushFirst(op) ==
    CASE op = "pull" -> "push"
      [] op = "push" -> "commit"
      [] op = "commit" -> "pull"

(* the order of the three blocks of the loop body *)
NextOp(op) ==
    CASE op = "pull" -> "commit"
      [] op = "commit" -> "push"
      [] op = "push" -> "pull"

(* the frame after the block of op is left: the next block, or the next   *)
(* entry after the last block; seen holds the blocks of this entry that   *)
(* have been left                                                         *)
After(f, op) ==
    IF f.seen \cup {op} = Ops
    THEN [f EXCEPT !.pc = "repo", !.i = f.i + 1, !.op = "pull", !.seen = {}]
    ELSE [f EXCEPT !.pc = "op", !.op = NextOp(op), !.seen = f.seen \cup {op}]

(* mutant: the pause flag is not consulted *)
App_enabled_NoPause(st, r, op) == AutoOf(r, op)

(* `if not self.app_state['global_pause_<op>'] and repo_data['auto_<op>']` *)
App_enabled(st, r, op) == (~PauseOf(st, op)) /\ AutoOf(r, op)

(* mutant: an operation that was not run in the first minute is given up *)
IsDue_Lapses(t, r, op) ==
    t - LastOf(r, op) >= IntervalOf(r, op) /\ t < SecondsPerMinute

(* `if time_since_last_<op>.total_seconds() >= <op>_interval_seconds` *)
IsDue(t, r, op) == t - LastOf(r, op) >= IntervalOf(r, op)

(* mutant: the timestamp is written whatever the operation returned *)
StampAlways(r, op, success, t) == SetLast(r, op, t)

(* `if self.<op>_repository(...): repo_data['last_<op>_at'] = current_time` *)
(* and the same statement of the service with datetime.now()               *)
StampOnSuccess(r, op, success, t) == IF success THEN SetLast(r, op, t) ELSE r

(* mutant: the guard uses the pause flags as they were when the           *)
(* invocation began                                                       *)
GuardState_AtTickStart(f) ==
    [app_state EXCEPT !.global_pause_pull = "pull" \in f.paused_at_start,
                      !.global_pause_commit = "commit" \in f.paused_at_start,
                      !.global_pause_push = "push" \in f.paused_at_start]

(* `self.app_state[...]` in the condition of a block: the state as it is  *)
(* when the block is reached; paused_at_start of an invocation (the flags *)
(* when it began) is kept for comparison only, the code has no such copy  *)
GuardState(f) == app_state

(* the guard's outcome, as the branches of the code log it *)
App_guard(st, r, op, t) ==
    IF App_enabled(st, r, op)
    THEN IF IsDue(t, r, op) THEN "due" ELSE "notdue"
    ELSE IF PauseOf(st, op) THEN "paused" ELSE "disabled"

(* QTimer.timeout -> perform_periodic_sync, up to the for loop *)
perform_periodic_sync ==
    /\ engine = "app"
    /\ EventLoopRuns
    /\ stack # <<>> => "reenter" \in env
    /\ Len(stack) < MaxDepth
    /\ IF app_state.repositories = <<>>
       THEN /\ stack' = stack
            /\ ev' = NoEv("tick_empty")
       ELSE /\ stack' = Append(stack, [i |-> 1, pc |-> "repo", op |-> "pull",
                                       seen |-> {},
                                       current_time |-> DatetimeMin,
                                       paused_at_start |->
                                           {o \in Ops : PauseOf(app_state, o)}])
            /\ ev' = NoEv("tick")
    /\ UNCHANGED <<engine, env, now, app_state, repositories, running, svc>>

(* the head of the loop body: the path check and current_time; the end of *)
(* the loop returns from perform_periodic_sync                            *)
App_repo ==
    /\ engine = "app"
    /\ stack # <<>>
    /\ Top.pc = "repo"
    /\ IF Top.i > Len(app_state.repositories)
       THEN /\ stack' = SubSeq(stack, 1, Len(stack) - 1)
            /\ ev' = NoEv("tick_end")
       ELSE \E valid \in BOOLEAN :
              IF valid
              THEN /\ stack' = SetTop([Top EXCEPT !.pc = "op", !.op = "pull",
                                                  !.current_time = now])
                   /\ ev' = [NoEv("repo") EXCEPT !.i = Top.i,
                                !.path = app_state.repositories[Top.i].path]
              ELSE /\ stack' = SetTop([Top EXCEPT !.i = Top.i + 1])
                   /\ ev' = [NoEv("skip_invalid") EXCEPT !.i = Top.i,
                                !.path = app_state.repositories[Top.i].path]
    /\ UNCHANGED <<engine, env, now, app_state, repositories, running, svc>>

(* one of the three blocks (pull, commit, push) of the loop body *)
App_op ==
    /\ engine = "app"
    /\ stack # <<>>
    /\ Top.pc = "op"
    /\ LET f == Top
           op == f.op
           r == app_state.repositories[f.i]
           guard == App_guard(GuardState(f), r, op, f.current_time)
       IN  IF guard = "due"
           THEN \E run \in App_runs(op), d \in Durations :
                  /\ now' = now + d
                  /\ app_state' = [app_state EXCEPT !.repositories[f.i] =
                        StampOnSuccess(r, op, run.success, f.current_time)]
                  /\ stack' = SetTop(IF run.dialog
                                      THEN [f EXCEPT !.pc = "dialog"]
                                      ELSE After(f, op))
                  /\ ev' = OpEv(op, f.i, r.path, guard, run)
           ELSE /\ now' = now
                /\ app_state' = app_state
                /\ stack' = SetTop(After(f, op))
                /\ ev' = OpEv(op, f.i, r.path, guard, NoRun)
    /\ UNCHANGED <<engine, env, repositories, running, svc>>

(* the user closes the QMessageBox: handle_git_operation_result returns *)
App_dialog_closed ==
    /\ engine = "app"
    /\ stack # <<>>
    /\ Top.pc = "dialog"
    /\ stack' = SetTop(After(Top, Top.op))
    /\ ev' = [NoEv("dialog_closed") EXCEPT !.op = Top.op, !.i = Top.i]
    /\ UNCHANGED <<engine, env, now, app_state, repositories, running, svc>>

(* set_global_pause(task_type, paused), from a check box or the tray menu *)
set_global_pause ==
    /\ engine = "app"
    /\ "pause" \in env
    /\ EventLoopRuns
    /\ \E task_type \in Ops, paused \in BOOLEAN :
         /\ app_state' =
              CASE task_type = "pull" -> [app_state EXCEPT !.global_pause_pull = paused]
                [] task_type = "commit" -> [app_state EXCEPT !.global_pause_commit = paused]
                [] task_type = "push" -> [app_state EXCEPT !.global_pause_push = paused]
         /\ ev' = [NoEv("pause") EXCEPT !.op = task_type]
    /\ UNCHANGED <<engine, env, now, stack, repositories, running, svc>>

(* time passes *)
AdvanceTime ==
    /\ now < MaxTime * SecondsPerMinute
    /\ now' = now + SecondsPerMinute
    /\ ev' = NoEv("time")
    /\ UNCHANGED <<engine, env, app_state, stack, repositories, running, svc>>

(* the index of the first entry of list with the given path, 0 if none:   *)
(* `next((r for r in ... if r['path'] == path), None)` and the inner loop *)
(* with break of the service's merge                                      *)
FirstMatch(list, path) ==
    LET S == {k \in 1..Len(list) : list[k].path = path}
    IN  IF S = {} THEN 0 ELSE CHOOSE k \in S : \A j \in S : k <= j

(* the merge by path: the new settings, the timestamps of the first old   *)
(* entry with the same path, datetime.min if there is none                *)
MergeEntry(old, e) ==
    LET k == FirstMatch(old, e.path)
    IN  IF k # 0
        THEN [NewEntry(e) EXCEPT !.last_pulled_at = old[k].last_pulled_at,
                                 !.last_committed_at = old[k].last_committed_at,
                                 !.last_pushed_at = old[k].last_pushed_at]
        ELSE NewEntry(e)

MergeByPath(old, new) == [k \in 1..Len(new) |-> MergeEntry(old, new[k])]

(* update_repositories_data(new_repos_data): the slot of RepoConfigTab's  *)
(* repo_config_changed; the main window takes no input while a dialog of  *)
(* a tick is open                                                         *)
update_repositories_data ==
    /\ engine = "app"
    /\ "edit" \in env
    /\ stack = <<>>
    /\ \E new_repos_data \in StoreInputs :
         /\ app_state' = [app_state EXCEPT
                !.repositories = MergeByPath(app_state.repositories, new_repos_data)]
         /\ ev' = [NoEv("update") EXCEPT !.cmds = new_repos_data]
    /\ UNCHANGED <<engine, env, now, stack, repositories, running, svc>>

--------------------------------------------------------------------------
(* git_puller_service.py *)

(* load_repositories(): [] when the file is missing or unparseable, else  *)
(* one entry per configured repository, timestamps at datetime.min        *)
load_repositories(file, readable) ==
    IF readable THEN [k \in 1..Len(file) |-> NewEntry(file[k])] ELSE <<>>

(* pull_repository / push_repository of the service *)
Svc_simple_repository(op, out) ==
    [cmds |-> <<Cmd(op, out)>>, success |-> Succeeded(out),
     dialog |-> FALSE, notes |-> 1, changes |-> "-",
     procs |-> SpawnCount(<<out>>)]

(* commit_repository of the service *)
Svc_commit_repository(st, dirty, ad, co) ==
    IF ~Succeeded(st)
    THEN [cmds |-> <<Cmd("status", st)>>, success |-> FALSE,
          dialog |-> FALSE, notes |-> 1, changes |-> "unknown",
          procs |-> SpawnCount(<<st>>)]
    ELSE IF ~dirty
    THEN [cmds |-> <<Cmd("status", st)>>, success |-> FALSE,
          dialog |-> FALSE, notes |-> 0, changes |-> "none",
          procs |-> SpawnCount(<<st>>)]
    ELSE IF ~Succeeded(ad)
    THEN [cmds |-> <<Cmd("status", st), Cmd("add", ad)>>, success |-> FALSE,
          dialog |-> FALSE, notes |-> 1, changes |-> "some",
          procs |-> SpawnCount(<<st, ad>>)]
    ELSE [cmds |-> <<Cmd("status", st), Cmd("add", ad), Cmd("commit", co)>>,
          success |-> Succeeded(co), dialog |-> FALSE, notes |-> 1,
          changes |-> "some", procs |-> SpawnCount(<<st, ad, co>>)]

Svc_runs(op) ==
    IF op = "commit"
    THEN {Svc_commit_repository(st, dirty, ad, co) :
            st \in GitOutcomes, dirty \in BOOLEAN,
            ad \in GitOutcomes, co \in GitOutcomes}
    ELSE {Svc_simple_repository(op, out) : out \in GitOutcomes}

(* the guard's outcome in main(): no pause flags in the service *)
Svc_guard(r, op, t) ==
    IF AutoOf(r, op)
    THEN IF IsDue(t, r, op) THEN "due" ELSE "notdue"
    ELSE "disabled"

(* the not-due branches of commit and push format remaining_seconds,      *)
(* which main() never assigns: NameError, uncaught                        *)
Svc_notdue_raises(op) == op \in {"commit", "push"}

(* `while running:` with the reload and the merge at the top of the body; *)
(* file is what the configuration file holds at the moment it is read,    *)
(* possibly nothing readable                                              *)
Svc_loop ==
    /\ engine = "svc"
    /\ svc.pc = "loop"
    /\ IF ~running
       THEN /\ svc' = [svc EXCEPT !.pc = "exited"]
            /\ repositories' = repositories
            /\ ev' = NoEv("exit")
       ELSE \E file \in StoreInputs, readable \in BOOLEAN :
              LET merged == MergeByPath(repositories,
                                load_repositories(file, readable))
              IN  /\ repositories' = merged
                  /\ svc' = IF merged = <<>>
                            THEN [svc EXCEPT !.pc = "sleep"]
                            ELSE [pc |-> "repo", i |-> 1, op |-> "pull", seen |-> {}]
                  /\ ev' = [NoEv("reload") EXCEPT !.success = readable]
    /\ UNCHANGED <<engine, env, now, app_state, stack, running>>

(* `for repo_data in repositories: if not running: break` *)
Svc_repo ==
    /\ engine = "svc"
    /\ svc.pc = "repo"
    /\ IF svc.i > Len(repositories) \/ ~running
       THEN /\ svc' = [svc EXCEPT !.pc = "sleep"]
            /\ ev' = NoEv(IF svc.i > Len(repositories) THEN "tick_end" ELSE "break")
       ELSE /\ svc' = [svc EXCEPT !.pc = "op", !.op = "pull"]
            /\ ev' = [NoEv("repo") EXCEPT !.i = svc.i,
                         !.path = repositories[svc.i].path]
    /\ UNCHANGED <<engine, env, now, app_state, stack, repositories, running>>

(* one of the three blocks (pull, commit, push) of the loop body *)
Svc_op ==
    /\ engine = "svc"
    /\ svc.pc = "op"
    /\ LET op == svc.op
           r == repositories[svc.i]
           guard == Svc_guard(r, op, now)
           next == After(svc, op)
       IN  IF guard = "due"
           THEN \E run \in Svc_runs(op), d \in Durations :
                  /\ now' = now + d
                  /\ repositories' = [repositories EXCEPT ![svc.i] =
                        StampOnSuccess(r, op, run.success, now + d)]
                  /\ svc' = next
                  /\ ev' = OpEv(op, svc.i, r.path, guard, run)
           ELSE /\ now' = now
                /\ repositories' = repositories
                /\ svc' = IF guard = "notdue" /\ Svc_notdue_raises(op)
                          THEN [svc EXCEPT !.pc = "crashed"]
                          ELSE next
                /\ ev' = OpEv(op, svc.i, r.path, guard, NoRun)
    /\ UNCHANGED <<engine, env, app_state, stack, running>>

(* the sleep of SERVICE_POLLING_INTERVAL_SECONDS, then the loop test *)
Svc_sleep ==
    /\ engine = "svc"
    /\ svc.pc = "sleep"
    /\ svc' = [svc EXCEPT !.pc = "loop"]
    /\ ev' = NoEv("sleep")
    /\ UNCHANGED <<engine, env, now, app_state, stack, repositories, running>>

(* what perform_commit_push_for_all_repos logs of an operation's result:  *)
(* "One-shot <op> successful" if it returned True, else "One-shot <op>    *)
(* failed"                                                                *)
OneShotReport(result) == IF result THEN "successful" ELSE "failed"

(* perform_commit_push_for_all_repos() of --commit-push-on-exit, one      *)
(* commit or push block per step; sys.exit(0) after the last entry        *)
perform_commit_push_for_all_repos ==
    /\ engine = "oneshot"
    /\ svc.pc = "oneshot"
    /\ IF svc.i > Len(repositories)
       THEN /\ svc' = [svc EXCEPT !.pc = "exited"]
            /\ now' = now
            /\ ev' = NoEv("exit")
       ELSE LET op == svc.op
                r == repositories[svc.i]
                next == IF op = "push"
                        THEN [svc EXCEPT !.i = svc.i + 1, !.op = "commit"]
                        ELSE [svc EXCEPT !.op = "push"]
            IN  IF AutoOf(r, op)
                THEN \E run \in Svc_runs(op), d \in Durations :
                       /\ now' = now + d
                       /\ svc' = next
                       /\ ev' = [OpEv(op, svc.i, r.path, "oneshot", run) EXCEPT
                                    !.kind = "oneshot",
                                    !.report = OneShotReport(run.success)]
                ELSE /\ now' = now
                     /\ svc' = next
                     /\ ev' = [OpEv(op, svc.i, r.path, "disabled", NoRun) EXCEPT
                                  !.kind = "oneshot"]
    /\ UNCHANGED <<engine, env, app_state, stack, repositories, running>>

(* SIGTERM *)
signal_handler ==
    /\ engine = "svc"
    /\ svc.pc \notin {"exited", "crashed"}
    /\ running
    /\ running' = FALSE
    /\ ev' = NoEv("sigterm")
    /\ UNCHANGED <<engine, env, now, app_state, stack, repositories, svc>>

--------------------------------------------------------------------------

NoPause(repos) ==
    [repositories |-> repos,
     global_pause_pull |-> FALSE,
     global_pause_commit |-> FALSE,
     global_pause_push |-> FALSE]

(* GitBuddyApp.__init__: app_state after load_app_state(), the timer      *)
(* started; main(): `repositories = load_repositories()` before the loop  *)
Init ==
    /\ engine \in {"app", "svc", "oneshot"}
    /\ now = 0
    /\ stack = <<>>
    /\ running = TRUE
    /\ ev = NoEv("init")
    /\ IF engine = "app"
       THEN /\ \E sc \in Scenarios :
                 /\ env = sc[1]
                 /\ \E pp \in BOOLEAN, pc \in BOOLEAN, ps \in BOOLEAN :
                      /\ "pause" \notin env => ~(pp \/ pc \/ ps)
                      /\ app_state = [repositories |-> load_repositories(sc[2], TRUE),
                                      global_pause_pull |-> pp,
                                      global_pause_commit |-> pc,
                                      global_pause_push |-> ps]
            /\ repositories = <<>>
            /\ svc = [pc |-> "off", i |-> 0, op |-> "pull", seen |-> {}]
       ELSE /\ env = {}
            /\ app_state = NoPause(<<>>)
            /\ \E file \in StoreInputs : repositories = load_repositories(file, TRUE)
            /\ svc = IF engine = "svc"
                     THEN [pc |-> "loop", i |-> 0, op |-> "pull", seen |-> {}]
                     ELSE [pc |-> "oneshot", i |-> 1, op |-> "commit", seen |-> {}]

Next ==
    \/ perform_periodic_sync
    \/ App_repo
    \/ App_op
    \/ App_dialog_closed
    \/ set_global_pause
    \/ update_repositories_data
    \/ Svc_loop
    \/ Svc_repo
    \/ Svc_op
    \/ Svc_sleep
    \/ perform_commit_push_for_all_repos
    \/ signal_handler
    \/ AdvanceTime

Spec == Init /\ [][Next]_vars

--------------------------------------------------------------------------
(* The configuration as json.load returns it *)

MaxEntries == 2

(* a value of an interval key: absent, a string, or a number; a number is *)
(* held in halves (h = 2 * value) so that 0.5 can be told from 0 and 1    *)
Missing == [t |-> "missing", h |-> 0]

NotANumber == [t |-> "str", h |-> 0]

Num(h) == [t |-> "num", h |-> h]

RawValues ==
    {Missing, NotANumber, Num(0), Num(-2), Num(1), Num(2), Num(60), Num(120)}

(* an element of the repositories list: a dict (with or without 'path')   *)
(* or something else                                                      *)
RawEntry(shape, has_path, path, raw) ==
    [shape |-> shape, has_path |-> has_path, path |-> path,
     pull_interval |-> raw[1], commit_interval |-> raw[2],
     push_interval |-> raw[3]]

RawEntries ==
    {RawEntry("str", FALSE, "-", <<Missing, Missing, Missing>>),
     RawEntry("dict", FALSE, "-", <<Num(120), Num(120), Num(120)>>),
     RawEntry("dict", TRUE, "B", <<Num(120), Num(120), Num(120)>>)}
    \cup {RawEntry("dict", TRUE, "A", <<v, Num(120), Num(120)>>) : v \in RawValues}
    \cup {RawEntry("dict", TRUE, "A", <<Num(120), v, Num(120)>>) : v \in RawValues}
    \cup {RawEntry("dict", TRUE, "A", <<Num(120), Num(120), v>>) : v \in RawValues}

RawFiles == UNION {[1..n -> RawEntries] : n \in 0..MaxEntries}

(* `if not isinstance(entry, dict) or 'path' not in entry: continue` *)
HasPath(e) == e.shape = "dict" /\ e.has_path

RawOf(e, op) ==
    CASE op = "pull" -> e.pull_interval
      [] op = "commit" -> e.commit_interval
      [] op = "push" -> e.push_interval

(* the settings of a loaded entry, given its three intervals in seconds;  *)
(* the flags are not varied here                                          *)
LoadedSettings(e, iv) ==
    [path |-> e.path,
     auto_pull |-> TRUE, pull_interval |-> iv[1],
     auto_commit |-> TRUE, commit_interval |-> iv[2],
     commit_message_template |-> "Auto-commit from GitBuddy: {timestamp}",
     auto_push |-> TRUE, push_interval |-> iv[3]]

(* load_app_state: entry.get('<op>_interval', default) in seconds, then   *)
(* max(1, value); max(1, 'abc') raises TypeError                          *)
App_default(op) == IF op = "pull" THEN 300 ELSE 3600

App_interval_raises(raw) == raw.t = "str"

App_interval(raw, op) ==
    IF raw.t = "missing" THEN App_default(op)
    ELSE IF raw.h <= 2 THEN 1
    ELSE raw.h \div 2

App_entry_raises(e) == \E op \in Ops : App_interval_raises(RawOf(e, op))

(* load_app_state: the repositories of app_state afterwards; old is the   *)
(* list before (the default, []); an exception inside the loop is caught  *)
(* after the loop was left, before the list is assigned                   *)
load_app_state(old, file, readable) ==
    IF ~readable THEN old
    ELSE LET kept == SelectSeq(file, HasPath)
         IN  IF \E k \in 1..Len(kept) : App_entry_raises(kept[k])
             THEN old
             ELSE [k \in 1..Len(kept) |->
                     NewEntry(LoadedSettings(kept[k],
                         <<App_interval(kept[k].pull_interval, "pull"),
                           App_interval(kept[k].commit_interval, "commit"),
                           App_interval(kept[k].push_interval, "push")>>))]

(* git_puller_service.load_repositories: entry.get('<op>_interval',       *)
(* default) in minutes; not a number or <= 0 gives the default; then * 60 *)
Svc_default_minutes(op) == IF op = "pull" THEN 5 ELSE 60

Svc_interval(raw, op) ==
    IF raw.t # "num" \/ raw.h <= 0
    THEN Svc_default_minutes(op) * SecondsPerMinute
    ELSE (raw.h * SecondsPerMinute) \div 2

Svc_load_repositories(file, readable) ==
    IF ~readable THEN <<>>
    ELSE LET kept == SelectSeq(file, HasPath)
         IN  [k \in 1..Len(kept) |->
                NewEntry(LoadedSettings(kept[k],
                    <<Svc_interval(kept[k].pull_interval, "pull"),
                      Svc_interval(kept[k].commit_interval, "commit"),
                      Svc_interval(kept[k].push_interval, "push")>>))]

(* what RepoConfigTab holds after an edit: intervals in minutes from the  *)
(* spin boxes (1 and up), 0 after "Disabled" typed into the table         *)
EditedMinutes == {0, 1, 5}

EditedInputs ==
    {<<>>} \cup
    {<<[LoadedSettings([path |-> p], <<m, 60, 60>>) EXCEPT !.auto_pull = (m # 0)]>> :
        p \in Paths, m \in EditedMinutes}

(* Text as the sequence of its characters *)
UpperLetters ==
    <<"A","B","C","D","E","F","G","H","I","J","K","L","M","N","O","P","Q",
      "R","S","T","U","V","W","X","Y","Z">>

LowerLetters ==
    <<"a","b","c","d","e","f","g","h","i","j","k","l","m","n","o","p","q",
      "r","s","t","u","v","w","x","y","z">>

LowerChar(c) ==
    IF \E k \in 1..Len(UpperLetters) : UpperLetters[k] = c
    THEN LowerLetters[CHOOSE k \in 1..Len(UpperLetters) : UpperLetters[k] = c]
    ELSE c

(* the text left in the case it has *)
LowerCase_Identity(text) == text

(* str.lower() *)
LowerCase(text) == [k \in 1..Len(text) |-> LowerChar(text[k])]

Whitespace == {" ", "\n", "\t"}

RECURSIVE StripLeft(_)
StripLeft(text) ==
    IF text # <<>> /\ Head(text) \in Whitespace THEN StripLeft(Tail(text)) ELSE text

RECURSIVE StripRight(_)
StripRight(text) ==
    IF text # <<>> /\ text[Len(text)] \in Whitespace
    THEN StripRight(SubSeq(text, 1, Len(text) - 1))
    ELSE text

(* str.strip() *)
Strip(text) == StripRight(StripLeft(text))

(* `keyword in text` *)
Contains(text, keyword) ==
    \E k \in 1..(Len(text) - Len(keyword) + 1) :
        SubSeq(text, k, k + Len(keyword) - 1) = keyword

auth_error_keywords ==
    {
    <<"a","u","t","h","e","n","t","i","c","a","t","i","o","n"," ","f","a",
      "i","l","e","d">>,
    <<"c","o","u","l","d"," ","n","o","t"," ","r","e","a","d"," ","u","s",
      "e","r","n","a","m","e">>,
    <<"c","o","u","l","d"," ","n","o","t"," ","r","e","a","d"," ","p","a",
      "s","s","w","o","r","d">>,
    <<"p","e","r","m","i","s","s","i","o","n"," ","d","e","n","i","e","d",
      " ","(","p","u","b","l","i","c","k","e","y",")">>,
    <<"f","a","t","a","l",":"," ","a","u","t","h","e","n","t","i","c","a",
      "t","i","o","n"," ","f","a","i","l","e","d">>,
    <<"r","e","m","o","t","e",":"," ","a","u","t","h","e","n","t","i","c",
      "a","t","i","o","n"," ","r","e","q","u","i","r","e","d">>,
    <<"b","a","d"," ","c","r","e","d","e","n","t","i","a","l","s">>,
    <<"n","o"," ","m","a","t","c","h","i","n","g"," ","p","r","i","v","a",
      "t","e"," ","k","e","y">>,
    <<"s","i","g","n","_","a","n","d","_","s","e","n","d","_","p","u","b",
      "k","e","y",":"," ","n","o"," ","m","u","t","u","a","l"," ","s","i",
      "g","n","a","t","u","r","e"," ","a","l","g","o","r","i","t","h","m">>,
    <<"u","s","e","r","n","a","m","e"," ","f","o","r">>,
    <<"p","a","s","s","w","o","r","d"," ","f","o","r">>,
    <<"s","s","h",":"," ","c","o","n","n","e","c","t"," ","t","o"," ","h",
      "o","s","t">>,
    <<"n","o"," ","s","u","p","p","o","r","t","e","d"," ","a","u","t","h",
      "e","n","t","i","c","a","t","i","o","n"," ","m","e","t","h","o","d",
      "s"," ","a","v","a","i","l","a","b","l","e">>,
    <<"f","a","t","a","l",":"," ","c","o","u","l","d"," ","n","o","t"," ",
      "r","e","a","d"," ","f","r","o","m"," ","r","e","m","o","t","e"," ",
      "r","e","p","o","s","i","t","o","r","y">>,
    <<"f","a","t","a","l",":"," ","r","e","p","o","s","i","t","o","r","y",
      " ","n","o","t"," ","f","o","u","n","d">>
    }

(* any(keyword in stderr_output.lower() for keyword in auth_error_keywords) *)
MatchesAuthKeyword(stderr_output) ==
    \E keyword \in auth_error_keywords :
        Contains(LowerCase(stderr_output), keyword)

(* what git wrote to stderr *)
AuthFailedText ==
    <<"f","a","t","a","l",":"," ","A","u","t","h","e","n","t","i","c","a",
      "t","i","o","n"," ","f","a","i","l","e","d"," ","f","o","r"," ","'",
      "h","t","t","p","s",":","/","/","e","x","a","m","p","l","e",".","c",
      "o","m","/","r","e","p","o",".","g","i","t","'">>

ConflictText ==
    <<"f","a","t","a","l",":"," ","c","o","n","f","l","i","c","t",","," ",
      "n","e","e","d","s"," ","m","e","r","g","e">>

AuthFailedUpperText ==
    <<"F","A","T","A","L",":"," ","A","U","T","H","E","N","T","I","C","A",
      "T","I","O","N"," ","F","A","I","L","E","D">>

PasswordPromptText ==
    <<"\n","P","a","s","s","w","o","r","d"," ","f","o","r"," ","'","h",
      "t","t","p","s",":","/","/","e","x","a","m","p","l","e",".","c","o",
      "m","'",":"," ">>

PublickeyText ==
    <<"g","i","t","@","e","x","a","m","p","l","e",".","c","o","m",":"," ",
      "P","e","r","m","i","s","s","i","o","n"," ","d","e","n","i","e","d",
      " ","(","p","u","b","l","i","c","k","e","y",")",".","\n">>

NearMissText ==
    <<"f","a","t","a","l",":"," ","A","u","t","h","e","n","t","i","c","a",
      "t","i","o","n"," "," ","f","a","i","l","e","d">>

PrefixOnlyText ==
    <<"r","e","m","o","t","e",":"," ","A","u","t","h","e","n","t","i","c",
      "a","t","i","o","n">>

EmptyText ==
    <<>>

StderrTexts ==
    {AuthFailedText, ConflictText, AuthFailedUpperText, PasswordPromptText,
     PublickeyText, NearMissText, PrefixOnlyText, EmptyText}

(* the path given to run_git_command: not a directory, a directory        *)
(* without .git, or a repository                                          *)
PathStates == {"not_dir", "no_git", "repo"}

(* what subprocess.run does: returns a completed process (exit code and   *)
(* stderr), or raises FileNotFoundError, TimeoutExpired or another        *)
(* exception                                                              *)
Completed(rc, stderr) == [how |-> "completed", returncode |-> rc, stderr |-> stderr]

Raised(exc) == [how |-> exc, returncode |-> 0, stderr |-> <<>>]

Executions ==
    {Completed(rc, t) : rc \in {0, 1, 128}, t \in StderrTexts}
    \cup {Raised(exc) : exc \in {"FileNotFoundError", "TimeoutExpired", "Exception"}}

Returned(success, output, is_auth_error) ==
    [success |-> success, output |-> output, is_auth_error |-> is_auth_error]

(* run_git_command with the flag of a completed process kept whatever the *)
(* exit code is                                                           *)
run_git_command_FlagOnSuccess(path_state, exec) ==
    IF path_state = "not_dir" THEN Returned(FALSE, "Not a directory", FALSE)
    ELSE IF path_state = "no_git" THEN Returned(FALSE, "Not a Git repository", FALSE)
    ELSE IF exec.how = "completed"
         THEN LET is_auth_error == MatchesAuthKeyword(Strip(exec.stderr))
              IN  IF exec.returncode # 0
                  THEN Returned(FALSE, "stderr", is_auth_error)
                  ELSE Returned(TRUE, "stdout", is_auth_error)
    ELSE IF exec.how = "FileNotFoundError"
         THEN Returned(FALSE, "Git command not found", FALSE)
    ELSE IF exec.how = "TimeoutExpired"
         THEN Returned(FALSE, "Command timed out", FALSE)
    ELSE Returned(FALSE, "str(e)", FALSE)

(* GitBuddyApp.run_git_command: (success, output, is_auth_error) *)
run_git_command(path_state, exec) ==
    IF path_state = "not_dir" THEN Returned(FALSE, "Not a directory", FALSE)
    ELSE IF path_state = "no_git" THEN Returned(FALSE, "Not a Git repository", FALSE)
    ELSE IF exec.how = "completed"
         THEN LET is_auth_error == MatchesAuthKeyword(Strip(exec.stderr))
              IN  IF exec.returncode # 0
                  THEN Returned(FALSE, "stderr", is_auth_error)
                  ELSE Returned(TRUE, "stdout", FALSE)
    ELSE IF exec.how = "FileNotFoundError"
         THEN Returned(FALSE, "Git command not found", FALSE)
    ELSE IF exec.how = "TimeoutExpired"
         THEN Returned(FALSE, "Command timed out", FALSE)
    ELSE Returned(FALSE, "str(e)", FALSE)

(* a call of run_git_command *)
Fn_run_git_command ==
    /\ engine = "fn"
    /\ ev.kind = "init"
    /\ \E path_state \in PathStates, exec \in Executions :
         ev' = [NoEv("run_git_command") EXCEPT
                   !.path = path_state, !.arg = exec,
                   !.ret = run_git_command(path_state, exec)]
    /\ UNCHANGED <<engine, env, now, app_state, stack, repositories, running, svc>>

(* GitBuddyApp.__init__ -> load_app_state() *)
Fn_load_app_state ==
    /\ engine = "fn"
    /\ ev.kind = "init"
    /\ \E file \in RawFiles, readable \in BOOLEAN :
         /\ app_state' = [app_state EXCEPT !.repositories =
                            load_app_state(app_state.repositories, file, readable)]
         /\ ev' = [NoEv("load_app_state") EXCEPT !.arg = file, !.success = readable]
    /\ UNCHANGED <<engine, env, now, stack, repositories, running, svc>>

(* main() -> load_repositories() *)
Fn_load_repositories ==
    /\ engine = "fn"
    /\ ev.kind = "init"
    /\ \E file \in RawFiles, readable \in BOOLEAN :
         /\ repositories' = Svc_load_repositories(file, readable)
         /\ ev' = [NoEv("load_repositories") EXCEPT !.arg = file, !.success = readable]
    /\ UNCHANGED <<engine, env, now, app_state, stack, running, svc>>

(* update_repositories_data(new_repos_data) with what the editor holds *)
Fn_update_repositories_data ==
    /\ engine = "fn"
    /\ ev.kind = "load_app_state"
    /\ \E new_repos_data \in EditedInputs :
         /\ app_state' = [app_state EXCEPT !.repositories =
                            MergeByPath(app_state.repositories, new_repos_data)]
         /\ ev' = [NoEv("update") EXCEPT !.arg = new_repos_data]
    /\ UNCHANGED <<engine, env, now, stack, repositories, running, svc>>

(* what the table of RepoConfigTab can hold for one repository: the three *)
(* intervals in minutes                                                   *)
TabInputs ==
    {<<LoadedSettings([path |-> "A"], <<a, b, c>>)>> :
        a \in EditedMinutes, b \in EditedMinutes, c \in EditedMinutes}

(* RepoConfigTab.save_configuration: the list written to config.json,     *)
(* every interval `* 60`                                                  *)
save_configuration(repositories_data) ==
    [k \in 1..Len(repositories_data) |->
        RawEntry("dict", TRUE, repositories_data[k].path,
            <<Num(2 * (repositories_data[k].pull_interval * SecondsPerMinute)),
              Num(2 * (repositories_data[k].commit_interval * SecondsPerMinute)),
              Num(2 * (repositories_data[k].push_interval * SecondsPerMinute))>>)]

(* RepoConfigTab.load_repositories_to_list: entry.get('<op>_interval',    *)
(* default) // 60                                                         *)
Tab_minutes(raw, op) ==
    IF raw.t = "missing" THEN App_default(op) \div SecondsPerMinute
    ELSE (raw.h \div 2) \div SecondsPerMinute

(* the entries before the first one whose `// 60` raises (a string); the  *)
(* exception ends the loop                                                *)
load_repositories_to_list(file) ==
    LET bad == {k \in 1..Len(file) : HasPath(file[k]) /\ App_entry_raises(file[k])}
        n == IF bad = {} THEN Len(file)
             ELSE (CHOOSE k \in bad : \A j \in bad : k <= j) - 1
        kept == SelectSeq(SubSeq(file, 1, n), HasPath)
    IN  [k \in 1..Len(kept) |->
            LoadedSettings(kept[k],
                <<Tab_minutes(kept[k].pull_interval, "pull"),
                  Tab_minutes(kept[k].commit_interval, "commit"),
                  Tab_minutes(kept[k].push_interval, "push")>>)]

(* save_configuration() in the editor, then the file read back by the     *)
(* service's next reload and by the editor                                *)
Fn_save_configuration ==
    /\ engine = "fn"
    /\ ev.kind = "init"
    /\ \E repositories_data \in TabInputs :
         LET file == save_configuration(repositories_data)
         IN  /\ repositories' = Svc_load_repositories(file, TRUE)
             /\ ev' = [NoEv("save_configuration") EXCEPT
                          !.arg = repositories_data,
                          !.ret = load_repositories_to_list(file)]
    /\ UNCHANGED <<engine, env, now, app_state, stack, running, svc>>

(* the commit block of perform_periodic_sync for an entry whose commit is *)
(* due: commit_repository, then the timestamp if it returned True         *)
Fn_commit_block ==
    /\ engine = "fn"
    /\ ev.kind = "init"
    /\ \E st \in GitOutcomes, dirty \in BOOLEAN, ad \in GitOutcomes,
          co \in GitOutcomes, current_time \in {0, SecondsPerMinute} :
         LET run == App_commit_repository(st, dirty, ad, co)
             r == NewEntry(AllOn[1])
         IN  /\ app_state' = [app_state EXCEPT !.repositories =
                    <<StampOnSuccess(r, "commit", run.success, current_time)>>]
             /\ ev' = [OpEv("commit", 1, r.path, "due", run) EXCEPT
                          !.kind = "commit_block",
                          !.arg = [status |-> st, dirty |-> dirty, add |-> ad,
                                   commit |-> co, current_time |-> current_time]]
    /\ UNCHANGED <<engine, env, now, stack, repositories, running, svc>>

FnInit ==
    /\ engine = "fn"
    /\ env = {}
    /\ now = 0
    /\ stack = <<>>
    /\ running = TRUE
    /\ app_state = NoPause(<<>>)
    /\ repositories = <<>>
    /\ svc = [pc |-> "off", i |-> 0, op |-> "pull", seen |-> {}]
    /\ ev = NoEv("init")

FnNext ==
    \/ Fn_load_app_state
    \/ Fn_load_repositories
    \/ Fn_update_repositories_data
    \/ Fn_run_git_command
    \/ Fn_commit_block
    \/ Fn_save_configuration

FnSpec == FnInit /\ [][FnNext]_vars

--------------------------------------------------------------------------
(* Steps of a tick of GitBuddyApp, by what they report *)

TickKinds == {"tick", "tick_empty", "tick_end", "repo", "skip_invalid", "op",
              "dialog_closed"}

AppTickStep == engine = "app" /\ ev'.kind \in TickKinds /\ stack' # stack

AppRepos == app_state.repositories

(* C1: in perform_periodic_sync, an operation that is disabled for an     *)
(* entry or globally paused is not run on it (no git command) and the     *)
(* entry's timestamp of that operation stays as it is, whatever the       *)
(* elapsed time.                                                          *)
C1_NoRunWhenDisabledOrPaused ==
    [][AppTickStep =>
         \A k \in 1..Len(AppRepos), o \in Ops :
             (~AutoOf(AppRepos[k], o) \/ PauseOf(app_state, o)) =>
                 /\ ~(ev'.kind = "op" /\ ev'.i = k /\ ev'.op = o /\ ev'.cmds # <<>>)
                 /\ LastOf(app_state'.repositories[k], o) = LastOf(AppRepos[k], o)]_vars

(* a paused push of an entry with auto_push whose last push is older than *)
(* the interval was just passed over; a disabled one likewise             *)
C1_Witness ==
    /\ engine = "app"
    /\ ev.kind = "op"
    /\ ev.guard = "paused"
    /\ ev.op = "push"
    /\ ev.cmds = <<>>
    /\ LET r == AppRepos[ev.i]
       IN  /\ r.auto_push
           /\ r.last_pushed_at # DatetimeMin
           /\ now - r.last_pushed_at > r.push_interval

(* C2 (as claimed): a due operation is attempted at most once per tick,   *)
(* also when perform_periodic_sync is re-entered: while an invocation is  *)
(* still inside handle_git_operation_result for an operation on a path    *)
(* (its dialog is open), no other invocation attempts that operation on   *)
(* that path.                                                             *)
C2_AtMostOncePerTick ==
    (engine = "app" /\ ev.kind = "op" /\ ev.guard = "due") =>
        \A k \in 1..(Len(stack) - 1) :
            ~(/\ stack[k].pc = "dialog"
              /\ stack[k].op = ev.op
              /\ AppRepos[stack[k].i].path = ev.path)

(* the store of the engine that runs, and the time a tick measures from *)
Repos == IF engine = "app" THEN app_state.repositories ELSE repositories

TickTime == IF engine = "app"
            THEN (IF stack = <<>> THEN now ELSE Top.current_time)
            ELSE now

OpsAfter(op) ==
    CASE op = "pull" -> {"commit", "push"}
      [] op = "commit" -> {"push"}
      [] op = "push" -> {}

(* C4 (as claimed): in a tick an operation is invoked if and only if it   *)
(* is enabled, not paused and its interval has elapsed; so the loop body  *)
(* of git_puller_service.main is never left for good on an entry while a  *)
(* later operation of that entry is enabled and due without having been   *)
(* invoked.                                                               *)
C4_DueOperationInvoked ==
    (engine = "svc" /\ svc.pc = "crashed") =>
        \A o \in OpsAfter(svc.op) :
            Svc_guard(repositories[svc.i], o, now) # "due"

(* the three timestamps of an entry *)
Stamps(r) == <<r.last_pulled_at, r.last_committed_at, r.last_pushed_at>>

(* C5 (as claimed): a reload (service) or an edit (update_repositories_   *)
(* data) gives every merged entry the timestamps of the existing entry    *)
(* with the same path, whichever existing entry that is.                  *)
C5_MergePreservesTimestamps ==
    [][(ev'.kind \in {"update", "reload"}) =>
         \A k \in 1..Len(Repos'), j \in 1..Len(Repos) :
             Repos[j].path = Repos'[k].path => Stamps(Repos'[k]) = Stamps(Repos[j])]_vars

(* C6 (as claimed): an entry with push enabled whose last push is older   *)
(* than the push interval gets its push in the tick; so the loop body of  *)
(* git_puller_service.main is never left for good in the commit block of  *)
(* an entry whose push is enabled and whose last successful push lies at  *)
(* least the interval back.                                               *)
C6_OverduePushInvoked ==
    (engine = "svc" /\ svc.pc = "crashed" /\ svc.op = "commit") =>
        LET r == repositories[svc.i]
        IN  ~(/\ r.auto_push
              /\ r.last_pushed_at # DatetimeMin
              /\ now - r.last_pushed_at >= r.push_interval)

(* the invocation that acts in a step of a tick *)
Acting == IF engine = "app" THEN Top ELSE svc

(* C7: in one tick and for one entry the operations run in the order      *)
(* pull, commit, push: a step that runs the commands of an operation is   *)
(* taken by an invocation that is not inside another operation (the one   *)
(* before has returned), pull with no block of this entry left yet,       *)
(* commit with exactly the pull block left, push with the pull and the    *)
(* commit block left.                                                     *)
C7_PullCommitPushOrder ==
    [][(ev'.kind = "op" /\ ev'.cmds # <<>>) =>
         /\ Acting.pc = "op"
         /\ Acting.i = ev'.i
         /\ ev'.op = "pull" => Acting.seen = {}
         /\ ev'.op = "commit" => Acting.seen = {"pull"}
         /\ ev'.op = "push" => Acting.seen = {"pull", "commit"}]_vars

(* a push has just succeeded on an entry whose pull and commit succeeded  *)
(* earlier in the same tick of the service, the pull before the commit    *)
C7_Witness ==
    /\ engine = "svc"
    /\ ev.kind = "op"
    /\ ev.op = "push"
    /\ ev.cmds = <<"push">>
    /\ ev.success
    /\ LET r == repositories[ev.i]
       IN  /\ r.last_pulled_at > 0
           /\ r.last_pulled_at < r.last_committed_at
           /\ r.last_committed_at <= r.last_pushed_at
           /\ r.last_pushed_at = now

(* C8 (as claimed): within a tick every entry of the store is evaluated,  *)
(* whatever happened on the entries before it; so the loop of             *)
(* git_puller_service.main is never left for good while an entry further  *)
(* down the list has an enabled operation that is due.                    *)
C8_LaterReposEvaluated ==
    (engine = "svc" /\ svc.pc = "crashed") =>
        \A k \in (svc.i + 1)..Len(repositories), o \in Ops :
            Svc_guard(repositories[k], o, now) # "due"

(* C9 (as claimed): the periodic loop of git_puller_service.main stops    *)
(* only on a shutdown request: whenever the loop has been left, running   *)
(* is False.                                                              *)
C9_OnlyShutdownStops ==
    (engine = "svc" /\ svc.pc \in {"exited", "crashed"}) => ~running

(* C10 (as claimed): commit_repository on a working tree without pending  *)
(* changes runs the status query only, and its caller does not report a   *)
(* failed commit.                                                         *)
C10_CleanTreeNotAFailure ==
    (ev.kind = "oneshot" /\ ev.op = "commit" /\ ev.changes = "none") =>
        /\ ev.cmds = <<"status">>
        /\ ev.report # "failed"

(* C11: an entry whose path is no directory or has no .git directory is   *)
(* passed over by perform_periodic_sync: no git command, no process, no   *)
(* entry changed, and the same invocation goes on with the next entry;    *)
(* and a run_git_command call that finds such a path starts no process,   *)
(* ends its operation as a failure without the authentication dialog and  *)
(* leaves every timestamp as it was.                                      *)
C11_InvalidPathSkipped ==
    [][/\ (ev'.kind = "skip_invalid") =>
            /\ Repos' = Repos
            /\ ev'.cmds = <<>> /\ ev'.procs = 0
            /\ Len(stack') = Len(stack)
            /\ stack'[Len(stack')] = [Top EXCEPT !.i = Top.i + 1]
            /\ Top.pc = "repo"
       /\ (ev'.kind \in {"op", "oneshot"} /\ ev'.procs < Len(ev'.cmds)) =>
            /\ ev'.procs = Len(ev'.cmds) - 1
            /\ ~ev'.success
            /\ Repos' = Repos
            /\ engine = "app" => stack'[Len(stack')].pc # "dialog"]_vars

(* perform_periodic_sync has just passed over the first of two entries,   *)
(* whose pull was enabled and never done, and stands at the second        *)
C11_Witness ==
    /\ engine = "app"
    /\ ev.kind = "skip_invalid"
    /\ ev.i = 1
    /\ Len(AppRepos) = 2
    /\ AppRepos[1].auto_pull
    /\ Stamps(AppRepos[1]) = <<DatetimeMin, DatetimeMin, DatetimeMin>>
    /\ Top.i = 2

(* the smallest interval the editor offers: one minute *)
MinIntervalSeconds == 60

(* C12 (as claimed): whatever interval the configuration supplies, every  *)
(* interval in the store of either engine is at least the minimum of 60   *)
(* seconds.                                                               *)
C12_IntervalsClamped ==
    \A o \in Ops :
        /\ \A k \in 1..Len(app_state.repositories) :
              IntervalOf(app_state.repositories[k], o) >= MinIntervalSeconds
        /\ \A k \in 1..Len(repositories) :
              IntervalOf(repositories[k], o) >= MinIntervalSeconds

(* C13 (as claimed): every git process, of either engine, is started with *)
(* terminal prompting off, the askpass helper replaced and stdin not the  *)
(* caller's.                                                              *)
C13_NeverInteractive ==
    ev.procs > 0 =>
        /\ ev.spawn.GIT_TERMINAL_PROMPT = "0"
        /\ ev.spawn.GIT_ASKPASS = "/bin/true"
        /\ ev.spawn.stdin = "PIPE"

(* C14 (as claimed): no tick ever waits for the user; an authentication   *)
(* failure included, a tick in progress is at a step it takes by itself.  *)
C14_TickNeverWaitsForInput ==
    \A k \in 1..Len(stack) : stack[k].pc # "dialog"

(* a call of run_git_command that ran git to completion with a non-zero   *)
(* exit code                                                              *)
FailedCommand ==
    /\ ev.kind = "run_git_command"
    /\ ev.path = "repo"
    /\ ev.arg.how = "completed"
    /\ ev.arg.returncode # 0

(* C15: for a failed command is_auth_error is true exactly when the       *)
(* lower-cased error text contains one of the fixed phrases: true for     *)
(* "fatal: Authentication failed for 'https://example.com/repo.git'",     *)
(* false for "fatal: conflict, needs merge", and the same for two texts   *)
(* that differ in case only.                                              *)
C15_AuthClassification ==
    FailedCommand =>
        /\ ev.ret.is_auth_error <=>
              \E keyword \in auth_error_keywords :
                 \E k \in 1..Len(ev.arg.stderr) :
                    /\ k + Len(keyword) - 1 <= Len(ev.arg.stderr)
                    /\ \A j \in 1..Len(keyword) :
                          LowerChar(ev.arg.stderr[k + j - 1]) = keyword[j]
        /\ ev.arg.stderr = AuthFailedText => ev.ret.is_auth_error
        /\ ev.arg.stderr = AuthFailedUpperText => ev.ret.is_auth_error
        /\ ev.arg.stderr = ConflictText => ~ev.ret.is_auth_error

C15_Witness ==
    /\ FailedCommand
    /\ ev.arg.stderr = AuthFailedText
    /\ ev.ret.is_auth_error
    /\ ~ev.ret.success

(* C16: in every outcome other than a completed process with a non-zero   *)
(* exit code run_git_command returns is_auth_error = false: on exit code  *)
(* 0 whatever stderr holds, on timeout, when git is not found and on a    *)
(* path that is no repository; succeeded is true on exit code 0 alone.    *)
C16_AuthFlagOnlyOnFailedCommand ==
    (ev.kind = "run_git_command" /\ ~FailedCommand) =>
        /\ ~ev.ret.is_auth_error
        /\ ev.ret.success <=>
              /\ ev.path = "repo"
              /\ ev.arg.how = "completed"
              /\ ev.arg.returncode = 0

C16_Witness ==
    /\ ev.kind = "run_git_command"
    /\ ev.path = "repo"
    /\ ev.arg.how = "completed"
    /\ ev.arg.returncode = 0
    /\ ev.arg.stderr = PasswordPromptText
    /\ ev.ret.success
    /\ ~ev.ret.is_auth_error

(* an entry of the file that has nothing wrong: a dict with a path whose  *)
(* intervals, where given, are numbers                                    *)
WellFormed(e) ==
    /\ HasPath(e)
    /\ \A o \in Ops : RawOf(e, o).t # "str"

(* C17 (as claimed): after a load of a readable file every well-formed    *)
(* entry of the file is in the store, whatever else the file holds.       *)
C17_WellFormedEntriesLoaded ==
    (ev.kind \in {"load_app_state", "load_repositories"} /\ ev.success) =>
        LET store == IF ev.kind = "load_app_state"
                     THEN app_state.repositories
                     ELSE repositories
        IN  \A k \in 1..Len(ev.arg) :
                WellFormed(ev.arg[k]) =>
                    \E j \in 1..Len(store) : store[j].path = ev.arg[k].path

(* C18 (as claimed): a configuration action (a pause switch, an edit      *)
(* passed to update_repositories_data) leaves the three timestamps of     *)
(* every repository that stays configured, at its place and under its     *)
(* path, as they were.                                                    *)
C18_ConfigActionsKeepTimestamps ==
    [][(engine = "app" /\ ev'.kind \in {"pause", "update"}) =>
         \A k \in 1..Len(AppRepos) :
             IF k <= Len(AppRepos')
             THEN AppRepos'[k].path = AppRepos[k].path =>
                      Stamps(AppRepos'[k]) = Stamps(AppRepos[k])
             ELSE TRUE]_vars

(* no two entries of a list have the same path *)
UniquePaths(list) ==
    \A j, k \in 1..Len(list) : list[j].path = list[k].path => j = k

(* C19 (as claimed): the path is a unique key of the store of either      *)
(* engine, whatever the configuration file lists.                         *)
C19_PathIsUniqueKey ==
    UniquePaths(app_state.repositories) /\ UniquePaths(repositories)

(* C20 (as claimed): a shutdown request lets the tick in progress finish: *)
(* when the service leaves the loop over the repositories because running *)
(* is False, no repository of that tick is left with an operation that is *)
(* due.                                                                   *)
C20_ShutdownFinishesTick ==
    (engine = "svc" /\ ev.kind = "break") =>
        \A k \in svc.i..Len(repositories), o \in Ops :
            Svc_guard(repositories[k], o, now) # "due"

(* C21 (as claimed): in GitBuddyApp every operation that is attempted     *)
(* hands exactly one outcome to the notifications, and an operation that  *)
(* is not attempted hands none.                                           *)
C21_OneNotificationPerAttempt ==
    (engine = "app" /\ ev.kind = "op") =>
        ev.notes = (IF ev.guard = "due" THEN 1 ELSE 0)

(* an entry as it enters the store: never pulled, committed or pushed *)
Fresh(r) == Stamps(r) = <<DatetimeMin, DatetimeMin, DatetimeMin>>

(* C22 (as claimed): the enabled operations of an entry that entered the  *)
(* store with its timestamps at 'never' are attempted in the first tick   *)
(* after; so the loop of git_puller_service.main is never left for good   *)
(* in front of such an entry.                                             *)
C22_FirstTickAttemptsFreshEntry ==
    (engine = "svc" /\ svc.pc = "crashed") =>
        \A k \in (svc.i + 1)..Len(repositories) :
            ~(Fresh(repositories[k]) /\ \E o \in Ops : AutoOf(repositories[k], o))

(* the moments a later tick can take as its current_time *)
LaterTimes(t) == {u \in {k * SecondsPerMinute : k \in 0..(MaxTime + 1)} : u >= t}

(* C23: an operation of GitBuddyApp that was attempted and failed ran     *)
(* each of its git commands once, is not attempted again by the same      *)
(* tick, leaves every timestamp as it was, and is found due by the guard  *)
(* of any later tick in which it is still enabled and not paused.         *)
C23_FailedStaysDueNoRetry ==
    [][(engine = "app" /\ ev'.kind = "op" /\ ev'.guard = "due" /\ ~ev'.success) =>
         /\ AppRepos' = AppRepos
         /\ \A j, k \in 1..Len(ev'.cmds) : ev'.cmds[j] = ev'.cmds[k] => j = k
         /\ Len(stack') = Len(stack)
         /\ stack'[Len(stack')] \in
               {After(Top, Top.op), [Top EXCEPT !.pc = "dialog"]}
         /\ After(Top, Top.op).op # Top.op \/ After(Top, Top.op).i # Top.i
         /\ \A t \in LaterTimes(Top.current_time) :
               App_guard(app_state', AppRepos'[ev'.i], ev'.op, t) # "notdue"]_vars

C23_Witness ==
    /\ engine = "app"
    /\ ev.kind = "op" /\ ev.guard = "due" /\ ~ev.success /\ ev.procs > 0
    /\ LastOf(AppRepos[ev.i], ev.op) = 0
    /\ Top.current_time >= IntervalOf(AppRepos[ev.i], ev.op)

(* C24 (as claimed): the operations attempted after a failed operation,   *)
(* and their order, are those of the same run with the failure not        *)
(* classified as an authentication error: the tick goes on with its next  *)
(* block, so no operation is attempted by another invocation while an     *)
(* invocation is held at a failure of its own.                            *)
C24_AuthFlagDoesNotReorder ==
    (engine = "app" /\ ev.kind = "op" /\ ev.guard = "due") =>
        \A k \in 1..(Len(stack) - 1) : stack[k].pc # "dialog"

C26_CommitSubcommandOrder ==
    ev.kind = "commit_block" =>
        LET a == ev.arg
            n == Len(ev.cmds)
            staged == a.status = "ok" /\ a.dirty
            committed == staged /\ a.add = "ok"
        IN  /\ n \in 1..3
            /\ ev.cmds = SubSeq(<<"status", "add", "commit">>, 1, n)
            /\ n >= 2 <=> staged
            /\ n = 3 <=> committed
            /\ ev.success <=> (committed /\ a.commit = "ok")
            /\ app_state.repositories[1].last_committed_at =
                  (IF committed /\ a.commit = "ok"
                   THEN a.current_time ELSE DatetimeMin)
            /\ app_state.repositories[1].last_pulled_at = DatetimeMin
            /\ app_state.repositories[1].last_pushed_at = DatetimeMin

(* staging failed after a status query that reported changes: no commit,  *)
(* no timestamp                                                           *)
C26_Witness ==
    /\ ev.kind = "commit_block"
    /\ ev.arg.status = "ok" /\ ev.arg.dirty /\ ev.arg.add = "failed"
    /\ ev.arg.commit = "ok"
    /\ ev.cmds = <<"status", "add">>
    /\ ~ev.success
    /\ app_state.repositories[1].last_committed_at = DatetimeMin

(* C27 (as claimed): a reload of git_puller_service.main that could not   *)
(* read the configuration does not reset the bookkeeping: the timestamps  *)
(* of every configured path are still held after it, for the next good    *)
(* read to be merged with.                                                *)
C27_BadReloadKeepsTimestamps ==
    [][(engine = "svc" /\ ev'.kind = "reload" /\ ~ev'.success) =>
         \A k \in 1..Len(repositories) :
             \E j \in 1..Len(repositories') :
                 /\ repositories'[j].path = repositories[k].path
                 /\ Stamps(repositories'[j]) = Stamps(repositories[k])]_vars

(* C28 (as claimed): two successful runs of an operation on a repository  *)
(* start at least the operation's interval apart: the timestamp a         *)
(* successful run leaves, from which the next run is due one interval     *)
(* later, is not earlier than the moment the run's command was started.   *)
C28_IntervalBetweenStarts ==
    [][(ev'.kind = "op" /\ ev'.success) =>
         LastOf(Repos'[ev'.i], ev'.op) >= now]_vars

(* C29 (as claimed): no step of GitBuddyApp (a block of a tick, nested or *)
(* not, an edit, a pause switch) moves a timestamp of an entry that stays *)
(* at its place under its path back in time.                              *)
C29_TimestampsNeverDecrease ==
    [][engine = "app" =>
         \A k \in 1..Len(AppRepos), o \in Ops :
             IF k <= Len(AppRepos')
             THEN AppRepos'[k].path = AppRepos[k].path =>
                      LastOf(AppRepos'[k], o) >= LastOf(AppRepos[k], o)
             ELSE TRUE]_vars

(* C30 (as claimed): an interval of m minutes (m at least 1) held by the  *)
(* editor and written by save_configuration is m * 60 seconds in the      *)
(* service's store after load_repositories, and m minutes again in the    *)
(* editor after load_repositories_to_list.                                *)
C30_IntervalRoundTrip ==
    ev.kind = "save_configuration" =>
        \A k \in 1..Len(ev.arg), o \in Ops :
            IntervalOf(ev.arg[k], o) >= 1 =>
                /\ IntervalOf(repositories[k], o) =
                      IntervalOf(ev.arg[k], o) * SecondsPerMinute
                /\ IntervalOf(ev.ret[k], o) = IntervalOf(ev.arg[k], o)

====
